---- MODULE Spec2Model ----
(***************************************************************************)
(* A model of the mobile application's logic: the reducer-based            *)
(* authentication context with its persisted session (AuthProvider), the   *)
(* HTTP wrapper (ApiService), the user context (UserProvider) with the     *)
(* edit screen, and the validators library.                                *)
(***************************************************************************)
EXTENDS Integers, Sequences, FiniteSets, TLC

(***************************************************************************)
(* Bounds of the model.                                                    *)
(***************************************************************************)
\* Number of auth calls (login / register / logout) that may be in flight
\* at the same time.
MaxOps == 2
\* Total number of calls the user interface starts in one behaviour.
MaxCalls == 2

(***************************************************************************)
(* Values.                                                                 *)
(***************************************************************************)
\* JavaScript's null (and an absent storage key: getItem yields null).
Null == "null"

\* The response bodies of a successful /login or /register: a session
\* {token, user}; and the users and tokens in them.
Sessions == {"s1", "s2"}
SessUser(b) == IF b = "s1" THEN "u1" ELSE "u2"
SessToken(b) == IF b = "s1" THEN "t1" ELSE "t2"

\* JSON.stringify(user) and JSON.parse(userJson) on the User values.
JSONstringify(u) == IF u = "u1" THEN "{id:u1}" ELSE "{id:u2}"
JSONvalid(j) == j \in {"{id:u1}", "{id:u2}"}
JSONparse(j) == IF j = "{id:u1}" THEN "u1" ELSE "u2"

\* STORAGE_KEYS of the auth context.
USER == "@auth_user"
TOKEN == "@auth_token"
\* The key the HTTP wrapper reads.
AUTHTOKEN == "authToken"
StorageKeys == {USER, TOKEN, AUTHTOKEN}

VARIABLES
  state,       \* AuthState: [user, token, loading, error]
  storage,     \* AsyncStorage: key -> value, Null when the key is absent
  queue,       \* AsyncStorage: the requests issued and not yet carried out
  load,        \* loadStoredAuth of the mounted provider: the getItem calls
               \* outstanding and the values read so far
  ops,         \* the login / register / logout calls in flight
  calls,       \* number of calls started
  last,        \* the event of the last step (dispatch or return of a call)
  established, \* the session of the latest LOGIN_/REGISTER_SUCCESS, Null
               \* once logout() has been called after it
  expect,      \* `established' as it was when the provider was mounted,
               \* Null once a later success or logout() call voided it
  destroyed,   \* a logout() call has resolved and no login()/register()
               \* call was started since that logout() call was made
  userId,      \* UserProvider: the prop initialUserId
  ctx,         \* UserProvider: [user, loading, error]
  loads,       \* the loadUser calls in flight
  server,      \* the backend's user records: id -> name
  screen,      \* the route on top of the stack
  form,        \* EditUserScreen: the text fields
  saving,      \* EditUserScreen: the saving flag
  saves,       \* the handleSave calls in flight
  platform,    \* Platform.OS
  api,         \* ApiService: the request in the request interceptor
  sent,        \* ApiService: the request last handed to the network
  vin,         \* validators: the argument
  vout         \* validators: the validator applied last and its results

authVars == <<state, storage, queue, load, ops, calls, last,
              established, expect, destroyed>>
userVars == <<userId, ctx, loads, server, screen, form, saving, saves>>
apiVars == <<api, sent>>
valVars == <<vin, vout>>
vars == <<authVars, userVars, platform, apiVars, valVars>>

(***************************************************************************)
(* The auth reducer.                                                       *)
(***************************************************************************)
initialState == [user |-> Null, token |-> Null, loading |-> FALSE, error |-> Null]

\* A reducer whose FAILURE case also drops the session.
authReducerDropping(st, action) ==
  CASE action.type = "INIT" ->
         [st EXCEPT !.user = action.user, !.token = action.token]
    [] action.type \in {"LOGIN_START", "REGISTER_START"} ->
         [st EXCEPT !.loading = TRUE, !.error = Null]
    [] action.type \in {"LOGIN_SUCCESS", "REGISTER_SUCCESS"} ->
         [st EXCEPT !.loading = FALSE, !.user = action.user,
                    !.token = action.token, !.error = Null]
    [] action.type \in {"LOGIN_FAILURE", "REGISTER_FAILURE"} ->
         [st EXCEPT !.loading = FALSE, !.error = action.error,
                    !.user = Null, !.token = Null]
    [] action.type = "LOGOUT" ->
         [st EXCEPT !.user = Null, !.token = Null, !.error = Null]
    [] OTHER -> st

authReducer(st, action) ==
  CASE action.type = "INIT" ->
         [st EXCEPT !.user = action.user, !.token = action.token]
    [] action.type \in {"LOGIN_START", "REGISTER_START"} ->
         [st EXCEPT !.loading = TRUE, !.error = Null]
    [] action.type \in {"LOGIN_SUCCESS", "REGISTER_SUCCESS"} ->
         [st EXCEPT !.loading = FALSE, !.user = action.user,
                    !.token = action.token, !.error = Null]
    [] action.type \in {"LOGIN_FAILURE", "REGISTER_FAILURE"} ->
         [st EXCEPT !.loading = FALSE, !.error = action.error]
    [] action.type = "LOGOUT" ->
         [st EXCEPT !.user = Null, !.token = Null, !.error = Null]
    [] OTHER -> st

Action(type, user, token, error) ==
  [type |-> type, user |-> user, token |-> token, error |-> error]

StartType(kind) == IF kind = "login" THEN "LOGIN_START" ELSE "REGISTER_START"
SuccessType(kind) == IF kind = "login" THEN "LOGIN_SUCCESS" ELSE "REGISTER_SUCCESS"
FailureType(kind) == IF kind = "login" THEN "LOGIN_FAILURE" ELSE "REGISTER_FAILURE"

(***************************************************************************)
(* Errors.  A thrown value is an Error with a message, or NonError.        *)
(***************************************************************************)
NonError == "<not an Error>"
NetworkError == "Network request failed"
ParseError == "JSON Parse error"
StorageError == "Failed to write to storage"
ServerMessage == "Invalid credentials"

\* error instanceof Error ? error.message : 'An unknown error occurred'
Message(e) == IF e # NonError THEN e ELSE "An unknown error occurred"

\* errorData.message ?? 'Login failed' / 'Registration failed'
DefaultMessage(kind) == IF kind = "login" THEN "Login failed" ELSE "Registration failed"
ErrorDataMessage(kind, body) == IF body = "msg" THEN ServerMessage ELSE DefaultMessage(kind)

(***************************************************************************)
(* AsyncStorage.  A request is queued when it is issued; the requests are  *)
(* carried out one at a time in the order of issue, and each one fulfils   *)
(* or rejects on its own.  Promise.all issues its requests in the order of *)
(* its array.  Owner 0 is the provider's initial load, owner n > 0 is the  *)
(* n-th call, owner -1 is the request interceptor of ApiService.           *)
(***************************************************************************)
Request(owner, kind, key, val) ==
  [owner |-> owner, kind |-> kind, key |-> key, val |-> val]

persistAuth(id, user, token) ==
  << Request(id, "set", USER, JSONstringify(user)),
     Request(id, "set", TOKEN, token) >>

clearPersistedAuth(id) ==
  << Request(id, "remove", USER, Null), Request(id, "remove", TOKEN, Null) >>

loadStoredAuth ==
  << Request(0, "get", USER, Null), Request(0, "get", TOKEN, Null) >>

\* The storage after request r has been carried out.
Effect(store, r, success) ==
  IF success /\ r.kind \in {"set", "remove"}
    THEN [store EXCEPT ![r.key] = r.val]
    ELSE store

\* The initial load while Promise.all waits for both getItem calls, and
\* once INIT has been dispatched.
Loading == [pend |-> {USER, TOKEN}, userJson |-> Null, token |-> Null,
            inits |-> 0]
\* A load whose Promise.all stays pending after it has settled.
LoadNotDone == [pend |-> {USER, TOKEN}, userJson |-> Null, token |-> Null,
                inits |-> 0]
LoadDone == [pend |-> {}, userJson |-> Null, token |-> Null, inits |-> 0]

\* A call in flight: its number, which function, where it waits, the
\* session the server answered, the storage requests awaited, user and
\* token of AuthState when it was called, the HTTP requests it has issued,
\* and (logout) whether no login / register has been called since.
NewOp == [id |-> 0, kind |-> "none", pc |-> "none", body |-> Null, pend |-> {},
          snapUser |-> Null, snapToken |-> Null, reqs |-> 0, clean |-> FALSE]

Event(ev, kind, u, t, reqs) ==
  [ev |-> ev, kind |-> kind, user |-> u, token |-> t, reqs |-> reqs]

NoEvent == Event("none", "none", Null, Null, 0)

\* Every call of the set with its `clean' flag reset.
Unclean(S) == {[o EXCEPT !.clean = FALSE] : o \in S}

(***************************************************************************)
(* The user model and its API (fetchUser, updateUser).                     *)
(***************************************************************************)
UserIds == {"a", "b"}
Names == {"n0", "n1"}

\* new User({id, name, ...}); User.fromJson of a response body.
User(id, name) == [id |-> id, name |-> name]
fromJson(json) == User(json.id, json.name)

\* user.copyWith({name, email, avatarUrl}) with the text of the form.
copyWith(user, update) == User(user.id, update.name)

\* useState<User | null>(null): no user.
NoUser == [id |-> Null, name |-> Null]

\* The useState initial values of UserProvider.
initialContext == [user |-> NoUser, loading |-> TRUE, error |-> Null]

\* A loadUser call in flight: its number (0: the one of the mount effect),
\* the initialUserId of the render it closed over, and the HTTP requests
\* it has issued.
loadUser(n, id) == [n |-> n, id |-> id, reqs |-> 1]

\* The fields of EditUserScreen, and their value while it is not mounted.
NoForm == [name |-> Null]

\* ApiService: no request; and the headers of a request.
HeaderNames == {"Content-Type", "Accept", "Authorization", "X-Platform", "X-Trace"}
NoHeaders == [h \in HeaderNames |-> Null]
NoRequest == [pc |-> "idle", method |-> Null, caller |-> NoHeaders,
              headers |-> NoHeaders, token |-> Null]

\* A JavaScript value handed to a validator: its type and, for a string,
\* its characters (for an array its elements, for an object its keys).
Value(type, chars) == [type |-> type, chars |-> chars]
Str(chars) == Value("string", chars)
NoValue == Value("undefined", << >>)

\* The options object of isValidPassword: the keys it has and their values
\* (the value of a key it does not have is not read).
OptionNames == {"minLength", "requireUppercase", "requireLowercase",
                "requireNumber", "requireSpecialChar"}
NoOptions == [given |-> {}, minLength |-> 0, requireUppercase |-> FALSE,
              requireLowercase |-> FALSE, requireNumber |-> FALSE,
              requireSpecialChar |-> FALSE]

\* No validator applied yet.
NoResult == [name |-> "none", opts |-> NoOptions, os |-> Null, r1 |-> FALSE,
             r2 |-> FALSE]

(***************************************************************************)
(* AuthProvider.                                                           *)
(***************************************************************************)
\* What is left in flight of a login / register after its catch block:
\* nothing, the call returns (the dispatch of LOGIN_FAILURE /
\* REGISTER_FAILURE is Fail).
\* A catch block that sends the request once more.
CatchRetry(op) ==
  IF op.reqs < 2
    THEN {[op EXCEPT !.pc = "fetch", !.pend = {}, !.reqs = @ + 1]}
    ELSE {}

Catch(op) == {}

Fail(op, e) ==
  /\ state' = authReducer(state,
                Action(FailureType(op.kind), Null, Null, Message(e)))
  /\ last' = Event("FAILURE", op.kind, op.snapUser, op.snapToken, op.reqs)

\* useEffect of AuthProvider on mount: the getItem calls of loadStoredAuth
\* settle; the second one, or the first that rejects, dispatches INIT.
GetItemSettle(success) ==
  /\ queue # << >>
  /\ Head(queue).kind = "get"
  /\ Head(queue).owner = 0
  /\ queue' = Tail(queue)
  /\ LET k == Head(queue).key
         l == IF k = USER
                THEN [load EXCEPT !.pend = @ \ {k}, !.userJson = storage[k]]
                ELSE [load EXCEPT !.pend = @ \ {k}, !.token = storage[k]]
         thrown == \/ ~success
                   \/ l.pend = {} /\ l.userJson \notin {Null, ""}
                                   /\ ~JSONvalid(l.userJson)
         user == IF l.userJson \notin {Null, ""}
                   THEN JSONparse(l.userJson) ELSE Null
     IN IF k \notin load.pend
          THEN /\ last' = NoEvent
               /\ UNCHANGED <<state, load>>
          ELSE IF thrown
            THEN /\ state' = authReducer(state, Action("INIT", Null, Null, Null))
                 /\ last' = Event("INIT", "catch", Null, Null, 0)
                 /\ load' = [LoadDone EXCEPT !.inits = load.inits + 1]
            ELSE IF l.pend = {}
              THEN /\ state' = authReducer(state,
                                 Action("INIT", user, l.token, Null))
                   /\ last' = Event("INIT", "try", user, l.token, 0)
                   /\ load' = [LoadDone EXCEPT !.inits = load.inits + 1]
              ELSE /\ load' = l
                   /\ last' = NoEvent
                   /\ UNCHANGED state
  /\ UNCHANGED <<storage, ops, calls, established, expect, destroyed>>
  /\ UNCHANGED <<userVars, platform, apiVars, valVars>>

\* A new call may start.
MayCall == calls < MaxCalls /\ Cardinality(ops) < MaxOps

\* login(email, password) / register(name, email, password) up to the
\* first await: the START dispatch and the fetch.
LoginCall(kind) ==
  /\ MayCall
  /\ state' = authReducer(state, Action(StartType(kind), Null, Null, Null))
  /\ ops' = Unclean(ops) \cup
              {[NewOp EXCEPT !.id = calls + 1, !.kind = kind, !.pc = "fetch",
                             !.snapUser = state.user,
                             !.snapToken = state.token,
                             !.reqs = 1]}
  /\ calls' = calls + 1
  /\ destroyed' = FALSE
  /\ last' = Event("START", kind, Null, Null, 1)
  /\ UNCHANGED <<storage, queue, load, established, expect>>
  /\ UNCHANGED <<userVars, platform, apiVars, valVars>>

\* What fetch and response.json() can yield: fetch rejects; or the response
\* is ok with a session or with a body that is no JSON; or it is an error
\* response whose body has a message, has none, or is no JSON.
Responses ==
  {[status |-> "reject", body |-> Null]}
    \cup {[status |-> "ok", body |-> b] : b \in Sessions \cup {"bad"}}
    \cup {[status |-> "error", body |-> b] : b \in {"msg", "nomsg", "bad"}}

\* The error thrown in the try block before persistAuth, Null if none.
Thrown(kind, r) ==
  CASE r.status = "reject" -> NetworkError
    [] r.status # "reject" /\ r.body = "bad" -> ParseError
    [] r.status = "error" /\ r.body # "bad" -> ErrorDataMessage(kind, r.body)
    [] OTHER -> Null

\* await fetch(...) and await response.json() settle (nothing of the
\* provider is read or written between the two): the call fails, or
\* persistAuth issues its two setItem calls.
FetchSettle(op, r) ==
  /\ op \in ops
  /\ op.pc = "fetch"
  /\ IF Thrown(op.kind, r) # Null
       THEN /\ Fail(op, Thrown(op.kind, r))
            /\ ops' = (ops \ {op}) \cup Catch(op)
            /\ UNCHANGED queue
       ELSE /\ ops' = (ops \ {op}) \cup
                        {[op EXCEPT !.pc = "persist", !.body = r.body,
                                    !.pend = {USER, TOKEN}]}
            /\ queue' = queue \o persistAuth(op.id, SessUser(r.body),
                                             SessToken(r.body))
            /\ last' = NoEvent
            /\ UNCHANGED state
  /\ UNCHANGED <<storage, load, calls, established, expect, destroyed>>
  /\ UNCHANGED <<userVars, platform, apiVars, valVars>>

\* The call that awaits the request at the head of the queue, if any.
Owner == {o \in ops : o.id = Head(queue).owner}

\* One AsyncStorage.setItem of persistAuth settles.  The first rejection
\* rejects Promise.all (the catch block runs) while the other setItem is
\* still carried out; the last fulfilment resolves it and LOGIN_SUCCESS /
\* REGISTER_SUCCESS is dispatched.
SetItemSettle(success) ==
  /\ queue # << >>
  /\ Head(queue).kind = "set"
  /\ queue' = Tail(queue)
  /\ storage' = Effect(storage, Head(queue), success)
  /\ IF Owner = {}
       THEN /\ last' = NoEvent
            /\ UNCHANGED <<state, ops, established, expect>>
       ELSE LET op == CHOOSE o \in Owner : TRUE
                rest == op.pend \ {Head(queue).key}
            IN IF ~success
                 THEN /\ Fail(op, StorageError)
                      /\ ops' = (ops \ {op}) \cup Catch(op)
                      /\ UNCHANGED <<established, expect>>
                 ELSE IF rest # {}
                   THEN /\ ops' = (ops \ {op}) \cup {[op EXCEPT !.pend = rest]}
                        /\ last' = NoEvent
                        /\ UNCHANGED <<state, established, expect>>
                   ELSE /\ state' = authReducer(state,
                                      Action(SuccessType(op.kind),
                                             SessUser(op.body),
                                             SessToken(op.body), Null))
                        /\ last' = Event("SUCCESS", op.kind, SessUser(op.body),
                                         SessToken(op.body), op.reqs)
                        /\ ops' = ops \ {op}
                        /\ established' = IF \E o \in ops : o.kind = "logout"
                                            THEN Null ELSE op.body
                        /\ expect' = Null
  /\ UNCHANGED <<load, calls, destroyed>>
  /\ UNCHANGED <<userVars, platform, apiVars, valVars>>

\* logout() up to its await: clearPersistedAuth issues both removeItem calls.
LogoutCall ==
  /\ MayCall
  /\ ops' = ops \cup {[NewOp EXCEPT !.id = calls + 1, !.kind = "logout",
                                    !.pc = "clear", !.pend = {USER, TOKEN},
                                    !.clean = TRUE]}
  /\ queue' = queue \o clearPersistedAuth(calls + 1)
  /\ calls' = calls + 1
  /\ established' = Null
  /\ expect' = Null
  /\ last' = NoEvent
  /\ UNCHANGED <<state, storage, load, destroyed>>
  /\ UNCHANGED <<userVars, platform, apiVars, valVars>>

\* One AsyncStorage.removeItem of clearPersistedAuth settles.  The last
\* fulfilment dispatches LOGOUT.  logout() has no catch block: the first
\* rejection rejects the promise logout() returned and nothing is
\* dispatched.
RemoveItemSettle(success) ==
  /\ queue # << >>
  /\ Head(queue).kind = "remove"
  /\ queue' = Tail(queue)
  /\ storage' = Effect(storage, Head(queue), success)
  /\ IF Owner = {}
       THEN /\ last' = NoEvent
            /\ UNCHANGED <<state, ops, destroyed>>
       ELSE LET op == CHOOSE o \in Owner : TRUE
                rest == op.pend \ {Head(queue).key}
            IN IF ~success
                 THEN /\ ops' = ops \ {op}
                      /\ last' = Event("REJECT", "logout", Null, Null, 0)
                      /\ UNCHANGED <<state, destroyed>>
                 ELSE IF rest # {}
                   THEN /\ ops' = (ops \ {op}) \cup {[op EXCEPT !.pend = rest]}
                        /\ last' = NoEvent
                        /\ UNCHANGED <<state, destroyed>>
                   ELSE /\ state' = authReducer(state,
                                      Action("LOGOUT", Null, Null, Null))
                        /\ last' = Event("LOGOUT", "logout", Null, Null, 0)
                        /\ ops' = ops \ {op}
                        /\ destroyed' = (destroyed \/ op.clean)
  /\ UNCHANGED <<load, calls, established, expect>>
  /\ UNCHANGED <<userVars, platform, apiVars, valVars>>

\* The application is killed and started again: AuthProvider is mounted
\* anew with initialState and loads the stored session; the calls in flight
\* and the requests not yet carried out are gone, storage stays.
Restart ==
  /\ state' = initialState
  /\ queue' = loadStoredAuth
  /\ load' = Loading
  /\ ops' = {}
  /\ last' = NoEvent
  /\ expect' = established
  /\ ctx' = initialContext
  /\ loads' = {loadUser(0, userId)}
  /\ screen' = "UserProfile"
  /\ form' = NoForm
  /\ saving' = FALSE
  /\ saves' = {}
  /\ api' = NoRequest
  /\ sent' = NoRequest
  /\ UNCHANGED <<storage, calls, established, destroyed>>
  /\ UNCHANGED <<userId, server, platform, valVars>>

NextAuth ==
  \/ \E success \in BOOLEAN : GetItemSettle(success)
  \/ \E kind \in {"login", "register"} : LoginCall(kind)
  \/ \E op \in ops, r \in Responses : FetchSettle(op, r)
  \/ \E success \in BOOLEAN : SetItemSettle(success)
  \/ LogoutCall
  \/ \E success \in BOOLEAN : RemoveItemSettle(success)
  \/ Restart



(***************************************************************************)
(* UserProvider, UserProfileScreen and EditUserScreen.                     *)
(***************************************************************************)
\* loadUser() up to its await: setLoading(true), setError(null), fetchUser.
StartLoad(id) ==
  /\ calls < MaxCalls
  /\ ctx' = [ctx EXCEPT !.loading = TRUE, !.error = Null]
  /\ loads' = loads \cup {loadUser(calls + 1, id)}
  /\ calls' = calls + 1
  /\ last' = NoEvent

\* The parent renders UserProvider with another initialUserId: the effect
\* runs loadUser again.
ChangeUserId(id) ==
  /\ id # userId
  /\ userId' = id
  /\ StartLoad(id)
  /\ UNCHANGED <<server, screen, form, saving, saves>>
  /\ UNCHANGED <<state, storage, queue, load, ops, established,
                 expect, destroyed, platform, apiVars, valVars>>

\* UserProfileScreen shows the error view (not loading, error set) and its
\* Retry button is pressed: refresh() runs loadUser.
Refresh ==
  /\ screen = "UserProfile"
  /\ ~ctx.loading
  /\ ctx.error # Null
  /\ StartLoad(userId)
  /\ UNCHANGED <<userId, server, screen, form, saving, saves>>
  /\ UNCHANGED <<state, storage, queue, load, ops, established,
                 expect, destroyed, platform, apiVars, valVars>>

\* What is left in flight of a loadUser call after its catch and finally
\* blocks: nothing.
LoadCatch(l) == {}

\* fetchUser settles: setUser(fetchedUser) or setError(e.message ?? ...),
\* then setLoading(false).
LoadSettle(l, success) ==
  /\ l \in loads
  /\ IF success
       THEN /\ ctx' = [ctx EXCEPT
                         !.user = fromJson([id |-> l.id, name |-> server[l.id]]),
                         !.loading = FALSE]
            /\ loads' = loads \ {l}
            /\ last' = Event("LOADED", "loadUser", l.id, Null, l.reqs)
       ELSE /\ ctx' = [ctx EXCEPT !.error = Message(NetworkError),
                                  !.loading = FALSE]
            /\ loads' = (loads \ {l}) \cup LoadCatch(l)
            /\ last' = Event("LOAD_FAILED", "loadUser", l.id, Null, l.reqs)
  /\ UNCHANGED <<userId, server, screen, form, saving, saves, calls>>
  /\ UNCHANGED <<state, storage, queue, load, ops, established,
                 expect, destroyed, platform, apiVars, valVars>>

\* UserProfileScreen shows the profile (not loading, no error, a user) and
\* "Edit Profile" is pressed: EditUserScreen is mounted with the user's
\* fields.
NavigateEdit ==
  /\ screen = "UserProfile"
  /\ ~ctx.loading
  /\ ctx.error = Null
  /\ ctx.user # NoUser
  /\ screen' = "EditUser"
  /\ form' = [name |-> ctx.user.name]
  /\ saving' = FALSE
  /\ last' = NoEvent
  /\ UNCHANGED <<userId, ctx, loads, server, saves, calls>>
  /\ UNCHANGED <<state, storage, queue, load, ops, established,
                 expect, destroyed, platform, apiVars, valVars>>

\* The saves whose EditUserScreen has been unmounted.
Unmounted(S) == {[v EXCEPT !.live = FALSE] : v \in S}

\* The header's back button: EditUserScreen is unmounted.
GoBack ==
  /\ screen = "EditUser"
  /\ screen' = "UserProfile"
  /\ form' = NoForm
  /\ saving' = FALSE
  /\ saves' = Unmounted(saves)
  /\ last' = NoEvent
  /\ UNCHANGED <<userId, ctx, loads, server, calls>>
  /\ UNCHANGED <<state, storage, queue, load, ops, established,
                 expect, destroyed, platform, apiVars, valVars>>

\* onChangeText of the name field.
SetName(name) ==
  /\ screen = "EditUser"
  /\ name # form.name
  /\ form' = [form EXCEPT !.name = name]
  /\ last' = NoEvent
  /\ UNCHANGED <<userId, ctx, loads, server, screen, saving, saves, calls>>
  /\ UNCHANGED <<state, storage, queue, load, ops, established,
                 expect, destroyed, platform, apiVars, valVars>>

\* "Save Changes" is pressed (the button is there while not saving):
\* handleSave up to its await.  Without a user it returns at once.
HandleSave ==
  /\ screen = "EditUser"
  /\ ~saving
  /\ calls < MaxCalls
  /\ calls' = calls + 1
  /\ IF ctx.user = NoUser
       THEN /\ last' = Event("SAVE_RETURN", "handleSave", Null, Null, 0)
            /\ UNCHANGED <<saving, saves>>
       ELSE /\ saving' = TRUE
            /\ saves' = saves \cup
                 {[n |-> calls + 1, user |-> copyWith(ctx.user, form),
                   reqs |-> 1, live |-> TRUE]}
            /\ last' = NoEvent
  /\ UNCHANGED <<userId, ctx, loads, server, screen, form>>
  /\ UNCHANGED <<state, storage, queue, load, ops, established,
                 expect, destroyed, platform, apiVars, valVars>>

\* What is left in flight of a handleSave call after its catch and finally
\* blocks: nothing.
SaveCatch(v) == {}

\* updateUser settles.  Fulfilled: setUser(savedUser), the alert and
\* navigation.goBack() (which pops the screen of the call, if it is still
\* mounted); rejected: the error alert.  Then setSaving(false).
SaveSettle(v, success) ==
  /\ v \in saves
  /\ IF success
       THEN /\ server' = [server EXCEPT ![v.user.id] = v.user.name]
            /\ ctx' = [ctx EXCEPT !.user = fromJson(v.user)]
            /\ saves' = IF v.live THEN Unmounted(saves \ {v}) ELSE saves \ {v}
            /\ screen' = IF v.live THEN "UserProfile" ELSE screen
            /\ form' = IF v.live THEN NoForm ELSE form
            /\ saving' = IF v.live THEN FALSE ELSE saving
            /\ last' = Event("SAVED", "handleSave", v.user.id, Null, v.reqs)
       ELSE /\ saves' = (saves \ {v}) \cup SaveCatch(v)
            /\ saving' = IF v.live THEN FALSE ELSE saving
            /\ last' = Event("SAVE_FAILED", "handleSave", v.user.id, Null, v.reqs)
            /\ UNCHANGED <<server, ctx, screen, form>>
  /\ UNCHANGED <<userId, loads, calls>>
  /\ UNCHANGED <<state, storage, queue, load, ops, established,
                 expect, destroyed, platform, apiVars, valVars>>

NextUser ==
  \/ \E id \in UserIds : ChangeUserId(id)
  \/ Refresh
  \/ \E l \in loads, success \in BOOLEAN : LoadSettle(l, success)
  \/ NavigateEdit
  \/ GoBack
  \/ \E name \in Names : SetName(name)
  \/ HandleSave
  \/ \E v \in saves, success \in BOOLEAN : SaveSettle(v, success)

(***************************************************************************)
(* ApiService.                                                             *)
(***************************************************************************)
Methods == {"get", "post", "put", "delete"}

\* Platform.OS.
OSes == {"ios", "android", "web"}

\* The headers of axios.create.
Defaults ==
  [NoHeaders EXCEPT !["Content-Type"] = "application/json",
                    !["Accept"] = "application/json"]

\* The headers a caller may pass in config.
CallerHeaders ==
  {[NoHeaders EXCEPT !["Authorization"] = a, !["X-Platform"] = x,
                     !["X-Trace"] = t, !["Content-Type"] = c] :
     a \in {Null, "Basic abc", "Bearer t1"}, x \in {Null, "custom"},
     t \in {Null, "1"}, c \in {Null, "text/plain"}}

\* axios merges the instance's headers with the ones of the call, which win.
mergeConfig(defaults, caller) ==
  [h \in HeaderNames |-> IF caller[h] # Null THEN caller[h] ELSE defaults[h]]

\* `Bearer ${token}`
Bearer(token) == "Bearer " \o token

\* if (token): neither null nor the empty string.
Truthy(token) == token # Null /\ token # ""

\* An interceptor that tests the token against null only.
handleRequestNotNull(headers, token, os) ==
  LET withAuth == IF token # Null
                    THEN [headers EXCEPT !["Authorization"] = Bearer(token)]
                    ELSE headers
  IN [withAuth EXCEPT !["X-Platform"] = os]

\* The request interceptor, after its getItem('authToken') has fulfilled.
handleRequest(headers, token, os) ==
  LET withAuth == IF Truthy(token)
                    THEN [headers EXCEPT !["Authorization"] = Bearer(token)]
                    ELSE headers
  IN [withAuth EXCEPT !["X-Platform"] = os]

\* get / post / put / delete: the request enters the request interceptor,
\* which asks storage for 'authToken'.
ApiCall(method, h) ==
  /\ api.pc = "idle"
  /\ api' = [pc |-> "interceptor", method |-> method, caller |-> h,
             headers |-> mergeConfig(Defaults, h), token |-> Null]
  /\ queue' = Append(queue, Request(-1, "get", AUTHTOKEN, Null))
  /\ UNCHANGED <<state, storage, load, ops, calls, last, established, expect,
                 destroyed, userVars, platform, sent, valVars>>

\* getItem('authToken') settles: the interceptor returns the config and the
\* request goes out, or the interceptor rejects and nothing is sent.
HandleRequestSettle(success) ==
  /\ queue # << >>
  /\ Head(queue).kind = "get"
  /\ Head(queue).owner = -1
  /\ queue' = Tail(queue)
  /\ IF success
       THEN /\ api' = [api EXCEPT
                         !.pc = "sent",
                         !.headers = handleRequest(api.headers,
                                                   storage[AUTHTOKEN], platform),
                         !.token = storage[AUTHTOKEN]]
            /\ sent' = api'
       ELSE /\ api' = NoRequest
            /\ UNCHANGED sent
  /\ UNCHANGED <<state, storage, load, ops, calls, last, established, expect,
                 destroyed, userVars, platform, valVars>>

\* The response arrives (handleResponse) or the request fails (handleError).
ResponseSettle(success) ==
  /\ api.pc = "sent"
  /\ api' = NoRequest
  /\ UNCHANGED <<authVars, userVars, platform, sent, valVars>>

NextApi ==
  \/ \E success \in BOOLEAN : GetItemSettle(success)
  \/ \E method \in Methods, h \in CallerHeaders : ApiCall(method, h)
  \/ \E success \in BOOLEAN : HandleRequestSettle(success)
  \/ \E success \in BOOLEAN : ResponseSettle(success)

(***************************************************************************)
(* The validators.  A string is the sequence of its characters.            *)
(***************************************************************************)
\* \s
Whitespace == {" ", "\t", "\n"}
\* What . does not match.
LineTerminators == {"\n"}
\* [A-Z], [a-z], [0-9]
Upper == <<"A", "B", "C", "D", "E", "F", "G", "H", "I", "J", "K", "L", "M",
           "N", "O", "P", "Q", "R", "S", "T", "U", "V", "W", "X", "Y", "Z">>
Lower == <<"a", "b", "c", "d", "e", "f", "g", "h", "i", "j", "k", "l", "m",
           "n", "o", "p", "q", "r", "s", "t", "u", "v", "w", "x", "y", "z">>
UpperCase == {Upper[i] : i \in 1..Len(Upper)}
LowerCase == {Lower[i] : i \in 1..Len(Lower)}
Digits == {"0", "1", "2", "3", "4", "5", "6", "7", "8", "9"}
AlphaNum == UpperCase \cup LowerCase \cup Digits

RECURSIVE trimStart(_)
trimStart(s) ==
  IF s # << >> /\ Head(s) \in Whitespace THEN trimStart(Tail(s)) ELSE s

RECURSIVE trimEnd(_)
trimEnd(s) ==
  IF s # << >> /\ s[Len(s)] \in Whitespace
    THEN trimEnd(SubSeq(s, 1, Len(s) - 1))
    ELSE s

\* String.prototype.trim
trim(s) == trimEnd(trimStart(s))

\* /^[class]*$/ and /[class]/ on s.
All(s, class) == \A i \in 1..Len(s) : s[i] \in class
Some(s, class) == \E i \in 1..Len(s) : s[i] \in class

\* The pieces of s between the occurrences of sep.
RECURSIVE split(_, _)
split(s, sep) ==
  IF \E i \in 1..Len(s) : s[i] = sep
    THEN LET i == CHOOSE k \in 1..Len(s) :
                    s[k] = sep /\ \A j \in 1..(k - 1) : s[j] # sep
         IN <<SubSeq(s, 1, i - 1)>> \o split(SubSeq(s, i + 1, Len(s)), sep)
    ELSE <<s>>

\* s.replace(/[class]/g, '')
RECURSIVE remove(_, _)
remove(s, class) ==
  IF s = << >> THEN << >>
  ELSE IF Head(s) \in class THEN remove(Tail(s), class)
  ELSE <<Head(s)>> \o remove(Tail(s), class)

\* The i flag: a letter of the string is compared in lower case.
toLowerCase(s) ==
  [i \in 1..Len(s) |->
     IF s[i] \in UpperCase
       THEN Lower[CHOOSE k \in 1..Len(Upper) : Upper[k] = s[i]]
       ELSE s[i]]

isRequired(value) ==
  CASE value.type \in {"null", "undefined"} -> FALSE
    [] value.type = "string" -> Len(trim(value.chars)) > 0
    [] value.type = "array" -> Len(value.chars) > 0
    [] value.type = "object" -> Len(value.chars) > 0
    [] OTHER -> TRUE

\* /^[a-zA-Z0-9.!#$%&'*+/=?^_`{|}~-]+@([a-zA-Z0-9-]+\.)+[a-zA-Z]{2,}$/
\* (the backquote of the local part's class is not among the characters of
\* the strings considered here).
EmailLocal ==
  AlphaNum \cup {".", "!", "#", "$", "%", "&", "'", "*", "+", "/", "=", "?",
                 "^", "_", "{", "|", "}", "~", "-"}
emailRegex(s) ==
  LET parts == split(s, "@")
      labels == split(parts[2], ".")
  IN /\ Len(parts) = 2
     /\ Len(parts[1]) > 0
     /\ All(parts[1], EmailLocal)
     /\ Len(labels) >= 2
     /\ \A i \in 1..(Len(labels) - 1) :
          Len(labels[i]) > 0 /\ All(labels[i], AlphaNum \cup {"-"})
     /\ Len(labels[Len(labels)]) >= 2
     /\ All(labels[Len(labels)], UpperCase \cup LowerCase)

isValidEmail(email) ==
  IF ~isRequired(email) THEN FALSE ELSE emailRegex(trim(email.chars))

\* /^\+?[1-9]\d{6,14}$/
phoneRegex(s) ==
  LET digits == IF s # << >> /\ Head(s) = "+" THEN Tail(s) ELSE s
  IN /\ Len(digits) >= 7
     /\ Len(digits) <= 15
     /\ Head(digits) \in Digits \ {"0"}
     /\ All(digits, Digits)

isValidPhoneNumber(phone) ==
  IF ~isRequired(phone)
    THEN FALSE
    ELSE phoneRegex(remove(phone.chars, Whitespace \cup {"-"}))

\* /^(https?|ftp):\/\/[^\s/$.?#].[^\s]*$/i
Schemes == {<<"h", "t", "t", "p">>, <<"h", "t", "t", "p", "s">>,
            <<"f", "t", "p">>}
urlRegex(s) ==
  \E scheme \in Schemes :
    LET n == Len(scheme) + 3
        rest == SubSeq(s, n + 1, Len(s))
    IN /\ Len(s) >= n + 2
       /\ toLowerCase(SubSeq(s, 1, Len(scheme))) = scheme
       /\ SubSeq(s, Len(scheme) + 1, n) = <<":", "/", "/">>
       /\ rest[1] \notin Whitespace \cup {"/", "$", ".", "?", "#"}
       /\ rest[2] \notin LineTerminators
       /\ ~Some(SubSeq(rest, 3, Len(rest)), Whitespace)

isValidUrl(url) ==
  IF ~isRequired(url) THEN FALSE ELSE urlRegex(trim(url.chars))

\* /^[a-zA-Z0-9_-]{3,16}$/
usernameRegex(s) ==
  Len(s) >= 3 /\ Len(s) <= 16 /\ All(s, AlphaNum \cup {"_", "-"})

isValidUsername(username) ==
  IF ~isRequired(username) THEN FALSE ELSE usernameRegex(trim(username.chars))

\* /^[a-zA-Z0-9-]+(\.[a-zA-Z0-9-]+)+$/
bundleIdRegex(s) ==
  LET segments == split(s, ".")
  IN /\ Len(segments) >= 2
     /\ \A i \in 1..Len(segments) :
          Len(segments[i]) > 0 /\ All(segments[i], AlphaNum \cup {"-"})

\* A validator with the test on Platform.OS the other way round.
isValidIOSBundleIdOnOthers(bundleId, os) ==
  IF os = "ios" THEN TRUE
  ELSE IF ~isRequired(bundleId) THEN FALSE
  ELSE bundleIdRegex(trim(bundleId.chars))

\* os is Platform.OS.
isValidIOSBundleId(bundleId, os) ==
  IF os # "ios" THEN TRUE
  ELSE IF ~isRequired(bundleId) THEN FALSE
  ELSE bundleIdRegex(trim(bundleId.chars))

\* /^[a-zA-Z][a-zA-Z0-9_]*(\.[a-zA-Z][a-zA-Z0-9_]*)+$/
packageRegex(s) ==
  LET segments == split(s, ".")
  IN /\ Len(segments) >= 2
     /\ \A i \in 1..Len(segments) :
          /\ Len(segments[i]) > 0
          /\ segments[i][1] \in UpperCase \cup LowerCase
          /\ All(segments[i], AlphaNum \cup {"_"})

\* os is Platform.OS.
isValidAndroidPackageName(packageName, os) ==
  IF os # "android" THEN TRUE
  ELSE IF ~isRequired(packageName) THEN FALSE
  ELSE packageRegex(trim(packageName.chars))

\* minLength = 8 of the destructuring defaults.
DefaultMinLength == 8

\* const { minLength = 8, requireUppercase = true, ... } = options ?? {}
Option(options, name, default) ==
  IF name \in options.given THEN options[name] ELSE default

\* The patterns pushed for the options, as character classes; the last one
\* is [^A-Za-z0-9], given by the class it excludes.
patterns(options) ==
  (IF Option(options, "requireUppercase", TRUE) THEN <<"upper">> ELSE << >>)
    \o (IF Option(options, "requireLowercase", TRUE) THEN <<"lower">> ELSE << >>)
    \o (IF Option(options, "requireNumber", TRUE) THEN <<"number">> ELSE << >>)
    \o (IF Option(options, "requireSpecialChar", TRUE) THEN <<"special">> ELSE << >>)

\* regex.test(password) for one of the patterns.
test(regex, s) ==
  CASE regex = "upper" -> Some(s, UpperCase)
    [] regex = "lower" -> Some(s, LowerCase)
    [] regex = "number" -> Some(s, Digits)
    [] regex = "special" -> \E i \in 1..Len(s) : s[i] \notin AlphaNum

\* A validator that also rejects a password of exactly minLength characters.
isValidPasswordOffByOne(password, options) ==
  IF ~isRequired(password) THEN FALSE
  ELSE IF Len(password.chars) <= Option(options, "minLength", DefaultMinLength)
    THEN FALSE
  ELSE LET every == patterns(options)
       IN \A i \in 1..Len(every) : test(every[i], password.chars)

isValidPassword(password, options) ==
  IF ~isRequired(password) THEN FALSE
  ELSE IF Len(password.chars) < Option(options, "minLength", DefaultMinLength)
    THEN FALSE
  ELSE LET every == patterns(options)
       IN \A i \in 1..Len(every) : test(every[i], password.chars)

ValidatorNames ==
  {"isRequired", "isValidEmail", "isValidPassword", "isValidPhoneNumber",
   "isValidUrl", "isValidUsername", "isValidIOSBundleId",
   "isValidAndroidPackageName"}

\* The validator of that name applied where Platform.OS is os.
Apply(name, value, options, os) ==
  CASE name = "isRequired" -> isRequired(value)
    [] name = "isValidEmail" -> isValidEmail(value)
    [] name = "isValidPassword" -> isValidPassword(value, options)
    [] name = "isValidPhoneNumber" -> isValidPhoneNumber(value)
    [] name = "isValidUrl" -> isValidUrl(value)
    [] name = "isValidUsername" -> isValidUsername(value)
    [] name = "isValidIOSBundleId" -> isValidIOSBundleId(value, os)
    [] name = "isValidAndroidPackageName" -> isValidAndroidPackageName(value, os)

\* The arguments the validators are applied to.
Samples ==
  {Value("undefined", << >>), Value("null", << >>), Value("number", << >>),
   Value("array", << >>), Value("array", <<"x">>),
   Value("object", << >>), Value("object", <<"k">>),
   Str(<< >>), Str(<<" ">>), Str(<<"\t", " ">>),
   Str(<<"a", "@", "b", ".", "c", "o", "m">>),
   Str(<<" ", "a", "@", "b", ".", "c", "o", " ">>),
   Str(<<"a", "@", "b", ".", "c">>),
   Str(<<"a", "@", "b">>),
   Str(<<"a", "@", "@", "b", ".", "c", "o">>),
   Str(<<"a", "@", "b", ".", ".", "c", "o">>),
   Str(<<"a", " ", "@", "b", ".", "c", "o">>),
   Str(<<"+", "1", "2", "3", "4", "5", "6", "7">>),
   Str(<<"1", "2", "3", "-", "4", "5", " ", "6", "7">>),
   Str(<<"0", "1", "2", "3", "4", "5", "6">>),
   Str(<<"1", "2", "3", "4", "5", "6">>),
   Str(<<"h", "t", "t", "p", ":", "/", "/", "a", "b">>),
   Str(<<"F", "T", "P", ":", "/", "/", "a", ".", "b">>),
   Str(<<"h", "t", "t", "p", "s", ":", "/", "/", "a", " ", "b">>),
   Str(<<"h", "t", "t", "p", ":", "/", "/", ".", "a">>),
   Str(<<"h", "t", "t", "p", ":", "/", "/", "a">>),
   Str(<<"a", "b">>), Str(<<"a", "_", "b">>), Str(<<"a", " ", "b">>),
   Str(<<"A", "a", "0", "!", "a", "a", "a", "a">>),
   Str(<<"w", "e", "a", "k">>),
   Str(<<"c", "o", "m", ".", "a", "p", "p">>),
   Str(<<"c", "o", "m", ".", "1", "a", "p", "p">>),
   Str(<<"a", "-", "b", ".", "c">>),
   Str(<<"c", "o", "m", ".", ".", "a", "p", "p">>),
   Str(<<"c", "o", "m">>)}

\* A validator is applied to the argument, here (Platform.OS is platform)
\* and in an environment where Platform.OS is os; the validators that take
\* a string are applied to strings.
Validate(name, os) ==
  /\ name = "isRequired" \/ vin.type = "string"
  /\ vout' = [name |-> name, opts |-> NoOptions, os |-> os,
              r1 |-> Apply(name, vin, NoOptions, platform),
              r2 |-> Apply(name, vin, NoOptions, os)]
  /\ UNCHANGED <<authVars, userVars, platform, apiVars, vin>>

NextValidators == \E name \in ValidatorNames, os \in OSes : Validate(name, os)

\* The longest password typed, and the longest one validated with options.
MaxPwLen == 8
MaxOptLen == 3

\* The characters typed: an upper-case and a lower-case letter, a digit, a
\* space (a special character that is white space too) and a letter
\* outside A-Z and a-z.
PwChars == {"A", "a", "0", " ", "é"}

\* The options objects passed: any subset of the keys, minLength up to
\* MaxOptLen.
PasswordOptions ==
  {[given |-> g,
    minLength |-> IF "minLength" \in g THEN m ELSE 0,
    requireUppercase |-> "requireUppercase" \in g /\ u,
    requireLowercase |-> "requireLowercase" \in g /\ l,
    requireNumber |-> "requireNumber" \in g /\ n,
    requireSpecialChar |-> "requireSpecialChar" \in g /\ x] :
     g \in SUBSET OptionNames, m \in 0..MaxOptLen, u \in BOOLEAN,
     l \in BOOLEAN, n \in BOOLEAN, x \in BOOLEAN}

\* One more character is typed and isValidPassword(password) is evaluated.
TypeChar(c) ==
  /\ vin.type = "string"
  /\ Len(vin.chars) < MaxPwLen
  /\ LET password == Str(Append(vin.chars, c))
         r == isValidPassword(password, NoOptions)
     IN /\ vin' = password
        /\ vout' = [name |-> "isValidPassword", opts |-> NoOptions,
                    os |-> platform, r1 |-> r, r2 |-> r]
  /\ UNCHANGED <<authVars, userVars, platform, apiVars>>

\* The password just typed is validated once more, with an options object:
\* isValidPassword(password, options).
CheckPassword(options) ==
  /\ vin.type = "string"
  /\ Len(vin.chars) <= MaxOptLen
  /\ vout.opts = NoOptions
  /\ LET r == isValidPassword(vin, options)
     IN vout' = [name |-> "isValidPassword", opts |-> options,
                 os |-> platform, r1 |-> r, r2 |-> r]
  /\ UNCHANGED <<authVars, userVars, platform, apiVars, vin>>

NextPassword ==
  \/ \E c \in PwChars : TypeChar(c)
  \/ /\ Len(vin.chars) <= MaxOptLen
     /\ \E options \in PasswordOptions : CheckPassword(options)

(***************************************************************************)
(* Specifications.                                                         *)
(***************************************************************************)
EmptyStorage == [k \in StorageKeys |-> Null]

\* What the key 'authToken' may hold when the application starts: nothing,
\* the empty string, or a token.
StoredTokens == {Null, "", "t1", "t2"}

\* The application has just started: AuthProvider is mounted with
\* initialState and has issued the getItem calls of loadStoredAuth,
\* UserProvider is mounted and has called loadUser, ApiService is
\* constructed, no validator has been applied.
Init(store, os, value) ==
  /\ state = initialState
  /\ storage = store
  /\ queue = loadStoredAuth
  /\ load = Loading
  /\ ops = {}
  /\ calls = 0
  /\ last = NoEvent
  /\ established = Null
  /\ expect = Null
  /\ destroyed = FALSE
  /\ userId = "a"
  /\ ctx = initialContext
  /\ loads = {loadUser(0, "a")}
  /\ server = [id \in UserIds |-> "n0"]
  /\ screen = "UserProfile"
  /\ form = NoForm
  /\ saving = FALSE
  /\ saves = {}
  /\ platform = os
  /\ api = NoRequest
  /\ sent = NoRequest
  /\ vin = value
  /\ vout = NoResult

\* The authentication context alone.
Spec == Init(EmptyStorage, "ios", NoValue) /\ [][NextAuth]_vars

\* The authentication context and the user context side by side.
SpecApp == Init(EmptyStorage, "ios", NoValue) /\ [][NextAuth \/ NextUser]_vars

\* The HTTP wrapper, on every platform and with every content of the key
\* 'authToken'.
SpecApi ==
  /\ \E t \in StoredTokens, os \in OSes :
       Init([EmptyStorage EXCEPT ![AUTHTOKEN] = t], os, NoValue)
  /\ [][NextApi]_vars

\* What the application may find in storage when it starts: no session, a
\* session, a user that is the empty string or is no JSON, one key alone.
StoredSessions ==
  {[EmptyStorage EXCEPT ![USER] = u, ![TOKEN] = t] :
     u \in {Null, "", "{id:u1}", "{id:"}, t \in {Null, "t1"}}

\* The authentication context, started on any stored session.
SpecMount ==
  /\ \E store \in StoredSessions : Init(store, "ios", NoValue)
  /\ [][NextAuth]_vars

\* The authentication context with requests sent through the HTTP wrapper
\* meanwhile (get requests to which the caller adds no header).
NextSession ==
  \/ NextAuth
  \/ ApiCall("get", NoHeaders)
  \/ \E success \in BOOLEAN : HandleRequestSettle(success)
  \/ \E success \in BOOLEAN : ResponseSettle(success)

SpecSession == Init(EmptyStorage, "ios", NoValue) /\ [][NextSession]_vars

\* The validators, on every platform.
SpecValidators ==
  /\ \E os \in OSes, value \in Samples : Init(EmptyStorage, os, value)
  /\ [][NextValidators]_vars

\* isValidPassword on the passwords typed.
SpecPassword == Init(EmptyStorage, "ios", Str(<< >>)) /\ [][NextPassword]_vars

(***************************************************************************)
(* The claims about AuthProvider.                                          *)
(***************************************************************************)
\* No call is in flight, no storage request is outstanding and the initial
\* load is over.
Quiescent == queue = << >> /\ load.pend = {} /\ ops = {}

\* C1: in every reachable AuthState a token implies a user.
C1_TokenImpliesUser == state.token # Null => state.user # Null

\* C2: once a logout() call has resolved, user and token are null and both
\* keys are absent from storage, until a login() or register() call is
\* started after that logout() call.
C2_LogoutDestroysSession ==
  destroyed => /\ state.user = Null
               /\ state.token = Null
               /\ storage[USER] = Null
               /\ storage[TOKEN] = Null

\* C3: whenever no auth operation is in flight, the in-memory session
\* equals the persisted one.
C3_MemoryEqualsStorage ==
  Quiescent =>
    /\ state.token = storage[TOKEN]
    /\ storage[USER] = IF state.user = Null THEN Null ELSE JSONstringify(state.user)

\* C4: a mount that follows a successful login / register, with no logout
\* and no later successful login / register, dispatches INIT with exactly
\* the user and the token of that call.
C4_SessionSurvivesRestart ==
  (last.ev = "INIT" /\ last.kind = "try" /\ expect # Null) =>
    /\ last.user = SessUser(expect)
    /\ last.token = SessToken(expect)
    /\ state.user = SessUser(expect)
    /\ state.token = SessToken(expect)

\* C5 as claimed: after the FAILURE dispatch of a failed login / register,
\* error is a string, loading is false, and user and token have the values
\* they had when the call started.
C5_FailureRestoresCallStart ==
  last.ev = "FAILURE" =>
    /\ state.error # Null
    /\ ~state.loading
    /\ state.user = last.user
    /\ state.token = last.token

\* C5 as amended: the step that dispatches LOGIN_FAILURE / REGISTER_FAILURE
\* sets error to a string and loading to false and leaves user and token as
\* they were just before the dispatch.
C5_FailureKeepsSession ==
  [][last'.ev = "FAILURE" =>
       /\ state'.error # Null
       /\ ~state'.loading
       /\ state'.user = state.user
       /\ state'.token = state.token]_vars

\* A login / register has failed while a session was established, and the
\* session is still there.
C5_Witness ==
  /\ last.ev = "FAILURE"
  /\ state.user # Null
  /\ state.token # Null
  /\ state.error # Null

\* C6: none of login(), register() and logout() ever rejects to its caller.
C6_NoCallRejects == last.ev # "REJECT"

(***************************************************************************)
(* The claim about retries.                                                *)
(***************************************************************************)
\* C7: every call of login(), register(), loadUser() and handleSave()
\* issues exactly one HTTP request, while it is in flight and when it has
\* returned, whether the request succeeded or failed.
C7_NoRetry ==
  /\ \A o \in ops : o.kind \in {"login", "register"} => o.reqs = 1
  /\ \A l \in loads : l.reqs = 1
  /\ \A v \in saves : v.reqs = 1
  /\ last.ev \in {"SUCCESS", "FAILURE", "LOADED", "LOAD_FAILED", "SAVED",
                  "SAVE_FAILED", "SAVE_RETURN"} => last.reqs = 1

\* A handleSave call has failed after its one request and nothing is in
\* flight any more.
C7_Witness ==
  /\ last.ev = "SAVE_FAILED"
  /\ last.reqs = 1
  /\ saves = {} /\ loads = {} /\ ops = {}

C9_PasswordPolicy ==
  vout.name = "isValidPassword" =>
    LET s == vin.chars
        o == vout.opts
        upper == UpperCase \cup {"É"}
        lower == LowerCase \cup {"é"}
    IN vout.r1 =
         /\ Len(s) >= Option(o, "minLength", DefaultMinLength)
         /\ Option(o, "requireUppercase", TRUE) => \E i \in 1..Len(s) : s[i] \in upper
         /\ Option(o, "requireLowercase", TRUE) => \E i \in 1..Len(s) : s[i] \in lower
         /\ Option(o, "requireNumber", TRUE) => \E i \in 1..Len(s) : s[i] \in Digits
         /\ Option(o, "requireSpecialChar", TRUE)
              => \E i \in 1..Len(s) : s[i] \notin upper \cup lower \cup Digits

\* C9 as amended: isValidPassword returns true if and only if the password
\* has a character that is not white space, has at least minLength (by
\* default 8) characters and, for each requirement whose flag is true (by
\* default all), a letter A-Z, a letter a-z, a digit 0-9, a character that
\* is none of these.
C9_PasswordPolicyAscii ==
  vout.name = "isValidPassword" =>
    LET s == vin.chars
        o == vout.opts
    IN vout.r1 =
         /\ \E i \in 1..Len(s) : s[i] \notin Whitespace
         /\ Len(s) >= Option(o, "minLength", DefaultMinLength)
         /\ Option(o, "requireUppercase", TRUE) => \E i \in 1..Len(s) : s[i] \in UpperCase
         /\ Option(o, "requireLowercase", TRUE) => \E i \in 1..Len(s) : s[i] \in LowerCase
         /\ Option(o, "requireNumber", TRUE) => \E i \in 1..Len(s) : s[i] \in Digits
         /\ Option(o, "requireSpecialChar", TRUE)
              => \E i \in 1..Len(s) : s[i] \notin UpperCase \cup LowerCase \cup Digits

\* A password of exactly eight characters is accepted with the default
\* options.
C9_Witness ==
  /\ vout.name = "isValidPassword"
  /\ vout.opts.given = {}
  /\ Len(vin.chars) = DefaultMinLength
  /\ vout.r1

(***************************************************************************)
(* The claim about ApiService.                                             *)
(***************************************************************************)
\* C10 as claimed: a request sent carries X-Platform, carries
\* Authorization: Bearer t if and only if the interceptor read a non-empty
\* t from 'authToken', and keeps every header the caller supplied.
C10_HeaderInjection ==
  sent.pc = "sent" =>
    /\ sent.headers["X-Platform"] # Null
    /\ Truthy(sent.token) => sent.headers["Authorization"] = Bearer(sent.token)
    /\ ~Truthy(sent.token) =>
         sent.headers["Authorization"] \notin {Bearer("t1"), Bearer("t2")}
    /\ \A h \in HeaderNames :
         sent.caller[h] # Null => sent.headers[h] = sent.caller[h]

\* C10 as amended: a request sent carries X-Platform: Platform.OS in place
\* of any X-Platform of the caller; it carries Authorization: Bearer t, in
\* place of any Authorization of the caller, when the interceptor read a
\* non-empty t from 'authToken', and otherwise the caller's Authorization
\* or none; every other header the caller supplied is kept.
C10_HeaderInjectionOverrides ==
  sent.pc = "sent" =>
    /\ sent.headers["X-Platform"] = platform
    /\ Truthy(sent.token) => sent.headers["Authorization"] = Bearer(sent.token)
    /\ ~Truthy(sent.token) =>
         sent.headers["Authorization"] = sent.caller["Authorization"]
    /\ \A h \in HeaderNames \ {"Authorization", "X-Platform"} :
         sent.caller[h] # Null => sent.headers[h] = sent.caller[h]

\* A request went out with the stored token and with a header of the
\* caller.
C10_Witness ==
  /\ sent.pc = "sent"
  /\ Truthy(sent.token)
  /\ sent.headers["Authorization"] = Bearer(sent.token)
  /\ sent.caller["X-Trace"] # Null
  /\ sent.headers["X-Trace"] = sent.caller["X-Trace"]

(***************************************************************************)
(* The claim about the mount of AuthProvider.                              *)
(***************************************************************************)
\* C11: on each mount INIT is dispatched exactly once (never a second
\* time, and once by the time the getItem calls of the mount have
\* settled); the dispatch changes neither error nor loading; and when the
\* load has failed (a getItem rejected, or the stored user is no JSON) its
\* payload is user = null, token = null, so that user and token are null
\* after it.
C11_InitOnce ==
  [][/\ load'.inits <= 1
     /\ (\A i \in 1..Len(queue') : queue'[i].owner # 0) => load'.inits = 1
     /\ last'.ev = "INIT" =>
          /\ load.inits = 0 /\ load'.inits = 1
          /\ state'.error = state.error
          /\ state'.loading = state.loading
          /\ last'.kind = "catch" =>
               /\ last'.user = Null /\ last'.token = Null
               /\ state'.user = Null /\ state'.token = Null]_vars

\* The load of a stored user that is no JSON has failed: INIT was dispatched
\* once, with nothing, and a stored token was not taken over.
C11_Witness ==
  /\ last.ev = "INIT" /\ last.kind = "catch"
  /\ storage[USER] = "{id:" /\ storage[TOKEN] = "t1"
  /\ queue = << >>
  /\ load.inits = 1
  /\ state = initialState

(***************************************************************************)
(* The claim about the token of ApiService.                                *)
(***************************************************************************)
\* C12: a request whose interceptor runs while AuthState.token is the token
\* of a successful login / register carries Authorization: Bearer of that
\* token, and a request whose interceptor runs after a logout() call has
\* resolved (and before a new login / register call) carries no
\* Authorization header.
C12_InjectsSessionToken ==
  [][(api.pc = "interceptor" /\ api'.pc = "sent") =>
       /\ (established # Null /\ state.token = SessToken(established))
            => sent'.headers["Authorization"] = Bearer(state.token)
       /\ destroyed => sent'.headers["Authorization"] = Null]_vars

(***************************************************************************)
(* The claim about UserProvider.                                           *)
(***************************************************************************)
\* C13: when the last fetchUser in flight settles, loading is false and,
\* if error is null (the most recently started load, which is a load of
\* initialUserId, has succeeded), the context's user is the user of
\* initialUserId.
C13_LatestLoadWins ==
  [][(last'.ev \in {"LOADED", "LOAD_FAILED"} /\ loads' = {}) =>
       /\ ~ctx'.loading
       /\ ctx'.error = Null => ctx'.user.id = userId']_vars

====
